---- MODULE Spec2Model ----
(***************************************************************************)
(* daytape: wrapping 24-hour clock arithmetic (src/src/lib.rs), the        *)
(* target-date rule and the interactive editor loop (src/src/main.rs).     *)
(***************************************************************************)
EXTENDS Integers, Sequences, FiniteSets, TLC

VARIABLES
    pc,            \* "frame": an iteration has been rendered (or the loop is about
                   \* to start); "events": inside `for event in app.events()`;
                   \* "done": edit() has returned
    cursor,        \* cursor: Time
    typed,         \* typed: String, a sequence of characters
    cmd_mode,      \* cmd_mode: bool
    tasks,         \* state.tasks: Vec<Task>
    day_date,      \* state.date
    schedule,      \* schedule.dates: HashMap<NaiveDate, DayState>, a function on its keys
    today,         \* today = now.date_naive(), a day number
    target,        \* target_date
    quit, save, scale_up, scale_down, delete, backspace,   \* the iteration's flags
    selected_slot, \* Option<TimeSlot> snapshot: << >> or <<slot>>
    nkeys,         \* events drained so far in this iteration
    pending,       \* key events the user will still send in this session
    before,        \* history: << >>, or <<the day state, typed text and clamped
                   \* cursor the commit phase of the last iteration started from>>
    probe          \* inputs and result of a pure function under test

vars == <<pc, cursor, typed, cmd_mode, tasks, day_date, schedule, today, target,
          quit, save, scale_up, scale_down, delete, backspace, selected_slot,
          nkeys, pending, before, probe>>

editor_vars == <<pc, cursor, typed, cmd_mode, tasks, day_date, schedule, today, target,
                 quit, save, scale_up, scale_down, delete, backspace, selected_slot,
                 nkeys, pending, before>>

----------------------------------------------------------------------------
(* Bounds of the model *)

\* key events drained in one loop iteration
MaxKeys == 3
\* key events of one editing session
MaxEvents == 5
\* key events of a session that only moves down, types and resizes
LateEvents == 15
\* key events of a session that creates one task in the last row and grows it
GrowEvents == 71
\* key events of a session opened on a stored schedule
SaveEvents == 3
\* stored days before today / after today in the schedule file
DaysBack == 1
DaysAhead == 2

----------------------------------------------------------------------------
(* Program constants *)

HoursPerDay == 24
MinsPerHour == 60
CursorStep == 5
NewTaskDuration == 15
ResizeStep == 5
RolloverHour == 18

----------------------------------------------------------------------------
(* lib.rs: Time *)

\* Time::new
TimeNew(h, m) == [hour |-> h, min |-> m]

\* Time::hours
Hours(h) == [hour |-> h, min |-> 0]

\* Time::mins
Mins(m) == [hour |-> m \div MinsPerHour, min |-> m % MinsPerHour]

\* Time::in_mins
InMins(t) == t.hour * MinsPerHour + t.min

\* derived Ord on Time: hour first, then min
TimeLt(a, b) == a.hour < b.hour \/ (a.hour = b.hour /\ a.min < b.min)

TimeLe(a, b) == a = b \/ TimeLt(a, b)

Min2(x, y) == IF x <= y THEN x ELSE y

Max2(x, y) == IF x >= y THEN x ELSE y

\* Time::clamp
Clamp(t, lo, hi) == Mins(Min2(Max2(InMins(lo), InMins(t)), InMins(hi)))

\* Add with the minute carry dropped
AddNoCarry(a, b) ==
    [hour |-> (a.hour + b.hour) % HoursPerDay, min |-> (a.min + b.min) % MinsPerHour]

\* impl Add<Time> for Time
Add(a, b) ==
    LET min == a.min + b.min
        plus_hours == min \div MinsPerHour
    IN  [hour |-> (a.hour + b.hour + plus_hours) % HoursPerDay,
         min  |-> min % MinsPerHour]

\* Sub without the +24 bias on the hour
SubStepsNoBias(a, b) ==
    LET borrowed == IF a.min >= b.min
                    THEN <<a.min - b.min, 0>>
                    ELSE <<(a.min + MinsPerHour) - b.min, 1>>
        biased == a.hour - b.hour
    IN  [min |-> borrowed[1], minus_hours |-> borrowed[2],
         biased |-> biased, hour |-> biased - borrowed[2]]

\* the intermediate values of Sub, as integers: in the program they are usize,
\* so a value below zero here is a panic in a debug build and a wrap to a huge
\* value in a release build
SubSteps(a, b) ==
    LET borrowed == IF a.min >= b.min
                    THEN <<a.min - b.min, 0>>
                    ELSE <<(a.min + MinsPerHour) - b.min, 1>>
        biased == (a.hour + HoursPerDay) - b.hour
    IN  [min |-> borrowed[1], minus_hours |-> borrowed[2],
         biased |-> biased, hour |-> biased - borrowed[2]]

\* some usize subtraction of Sub goes below zero
SubUnderflows(a, b) ==
    LET s == SubSteps(a, b) IN s.min < 0 \/ s.biased < 0 \/ s.hour < 0

\* impl Sub<Time> for Time
Sub(a, b) ==
    LET s == SubSteps(a, b) IN [hour |-> s.hour % HoursPerDay, min |-> s.min]

----------------------------------------------------------------------------
(* lib.rs: TimeSlot *)

\* TimeSlot::end
End(slot) == Add(slot.start, Mins(slot.duration))

\* TimeSlot::contains
Contains(slot, time) == TimeLe(slot.start, time) /\ TimeLt(time, End(slot))

----------------------------------------------------------------------------
(* lib.rs: Task, DayState; main.rs: helpers of edit() *)

None == << >>

Some(x) == <<x>>

ValidChars ==
    {"A","B","C","D","E","F","G","H","I","J","K","L","M","N","O","P","Q","R","S","T",
     "U","V","W","X","Y","Z","a","b","c","d","e","f","g","h","i","j","k","l","m","n",
     "o","p","q","r","s","t","u","v","w","x","y","z","-","_",",",".",";","'","\"","/",
     "|","(",")","0","1","2","3","4","5","6","7","8","9","!","?","<",">","~","+","=",
     "*","&","^","%","$","#","@"," "}

\* the keys the modelled user presses while in command mode, and outside it
CommandKeys == {"s", "q", "d", "x", "a"}

TextKeys == {"a", "q"}

IgnoredKeys == {"{"}

\* byte value of the characters the model types (String's Ord compares bytes)
Code(ch) == CASE ch = "a" -> 97 [] ch = "d" -> 100 [] ch = "q" -> 113
              [] ch = "s" -> 115 [] ch = "x" -> 120 [] OTHER -> 0

RECURSIVE LabelLt(_, _)
LabelLt(x, y) ==
    IF y = << >> THEN FALSE
    ELSE IF x = << >> THEN TRUE
    ELSE IF Code(Head(x)) # Code(Head(y)) THEN Code(Head(x)) < Code(Head(y))
    ELSE LabelLt(Tail(x), Tail(y))

\* derived Ord on TimeSlot: start, then duration
SlotLt(s, t) == TimeLt(s.start, t.start) \/ (s.start = t.start /\ s.duration < t.duration)

\* derived Ord on Task: slot, then label
TaskLt(s, t) == SlotLt(s.slot, t.slot) \/ (s.slot = t.slot /\ LabelLt(s.label, t.label))

RECURSIVE InsertSorted(_, _)
InsertSorted(ts, t) ==
    IF ts = << >> THEN <<t>>
    ELSE IF TaskLt(t, Head(ts)) THEN <<t>> \o ts
    ELSE <<Head(ts)>> \o InsertSorted(Tail(ts), t)

\* Vec::sort (stable; equal tasks are identical values)
RECURSIVE Sort(_)
Sort(ts) == IF ts = << >> THEN << >>
            ELSE InsertSorted(Sort(SubSeq(ts, 1, Len(ts) - 1)), ts[Len(ts)])

\* iter().find(|task| task.slot.contains(time)): index of the first match, 0 for None
FindContaining(ts, time) ==
    LET hits == {i \in 1..Len(ts) : Contains(ts[i].slot, time)}
    IN  IF hits = {} THEN 0 ELSE CHOOSE i \in hits : \A j \in hits : i <= j

\* state.tasks.retain(|task| !task.slot.contains(cursor))
RECURSIVE Retain(_, _)
Retain(ts, time) ==
    IF ts = << >> THEN << >>
    ELSE IF Contains(Head(ts).slot, time) THEN Retain(Tail(ts), time)
    ELSE <<Head(ts)>> \o Retain(Tail(ts), time)

WindowStart == TimeNew(7, 0)

WindowEnd == TimeNew(18, 55)

\* cursor.clamp(Time::new(7, 0), Time::new(18, 55))
ClampCursor(t) == Clamp(t, WindowStart, WindowEnd)

\* the task pushed when text is typed at an unoccupied cursor
NewTask(time) == [slot |-> [start |-> time, duration |-> NewTaskDuration], label |-> << >>]

\* String::pop
Pop(label) == IF label = << >> THEN << >> ELSE SubSeq(label, 1, Len(label) - 1)

\* task.slot.duration += 5
GrowDuration(d) == d + ResizeStep

\* shrink without the floor guard
ShrinkDurationUnguarded(d) == d - ResizeStep

\* if task.slot.duration > 5 { task.slot.duration -= 5 }
ShrinkDuration(d) == IF d > ResizeStep THEN d - ResizeStep ELSE d

\* target_date rolling over from 18:00
TargetDateFromSix(now, tomorrow) ==
    now.date + (IF tomorrow \/ now.hour >= RolloverHour THEN 1 ELSE 0)

\* target_date(now, tomorrow); adding whole days to `now` advances its date
TargetDate(now, tomorrow) ==
    LET tm == tomorrow \/ now.hour > RolloverHour
        offset == IF tm THEN 1 ELSE 0
    IN  now.date + offset

\* schedule.dates.retain(|date, _| date >= &today)
RetainFrom(dates, cutoff) == [d \in {k \in DOMAIN dates : k >= cutoff} |-> dates[d]]

\* schedule.dates.insert(target_date, state.clone())
Insert(dates, key, day) ==
    [d \in (DOMAIN dates) \cup {key} |-> IF d = key THEN day ELSE dates[d]]

\* the save branch pruning from the target date instead of today
SavedFromTarget(dates, cutoff, key, day) == Insert(RetainFrom(dates, key), key, day)

\* the save branch without the pruning of past days
SavedUnpruned(dates, cutoff, key, day) == Insert(dates, key, day)

\* the save branch of edit()
Saved(dates, cutoff, key, day) == Insert(RetainFrom(dates, cutoff), key, day)

\* schedule.dates.get(&target_date).cloned().unwrap_or_else(|| DayState { .. })
Loaded(dates, key) ==
    IF key \in DOMAIN dates THEN dates[key] ELSE [date |-> key, tasks |-> << >>]

\* `if delete { state.tasks.retain(..) }`
AfterDelete(ts, time, del) == IF del THEN Retain(ts, time) ELSE ts

\* create without the occupancy test
AfterCreateAlways(ts, time, text) ==
    IF text # << >> THEN Sort(Append(ts, NewTask(time))) ELSE ts

\* create without the sort after the push
AfterCreateUnsorted(ts, time, text) ==
    IF text # << >> /\ FindContaining(ts, time) = 0
    THEN Append(ts, NewTask(time))
    ELSE ts

\* `if create_if_empty && !any(contains(cursor)) { push(..); sort() }`
AfterCreate(ts, time, text) ==
    IF text # << >> /\ FindContaining(ts, time) = 0
    THEN Sort(Append(ts, NewTask(time)))
    ELSE ts

\* the body of `if let Some(task) = selected_task`, on the task's fields
EditTask(task, text, bs, up, down) ==
    LET pushed == task.label \o text
        label == IF bs THEN Pop(pushed) ELSE pushed
        grown == IF up THEN GrowDuration(task.slot.duration) ELSE task.slot.duration
        duration == IF down THEN ShrinkDuration(grown) ELSE grown
    IN  [slot |-> [start |-> task.slot.start, duration |-> duration], label |-> label]

\* the cursor left on the new end itself
ResizedCursorAtEnd(task) == End(task.slot)

\* `cursor = task.slot.end() - Time::mins(5)` after a resize
ResizedCursor(task) == Sub(End(task.slot), Mins(ResizeStep))

----------------------------------------------------------------------------
(* main.rs: edit(), one action per region of the loop body *)

flags == <<quit, save, scale_up, scale_down, delete, backspace>>

session == <<day_date, today, target>>

\* top of the loop body: reset the flags, take the selected_slot snapshot
BeginIteration ==
    /\ pc = "frame"
    /\ pc' = "events"
    /\ quit' = FALSE /\ save' = FALSE /\ scale_up' = FALSE
    /\ scale_down' = FALSE /\ delete' = FALSE /\ backspace' = FALSE
    /\ selected_slot' = LET i == FindContaining(tasks, cursor)
                        IN  IF i = 0 THEN None ELSE Some(tasks[i].slot)
    /\ nkeys' = 0
    /\ before' = None
    /\ UNCHANGED <<cursor, typed, cmd_mode, tasks, schedule, session, pending, probe>>

\* app.events() yields one more pending event
Received ==
    /\ pc = "events"
    /\ nkeys < MaxKeys
    /\ pending > 0
    /\ nkeys' = nkeys + 1
    /\ pending' = pending - 1
    /\ UNCHANGED <<pc, tasks, schedule, session, selected_slot, before, probe>>

KeyLeft ==
    /\ Received
    /\ cursor' = IF selected_slot # None
                 THEN Sub(selected_slot[1].start, Mins(CursorStep))
                 ELSE Sub(cursor, Mins(CursorStep))
    /\ UNCHANGED <<typed, cmd_mode, flags>>

KeyRight ==
    /\ Received
    /\ cursor' = IF selected_slot # None
                 THEN End(selected_slot[1])
                 ELSE Add(cursor, Mins(CursorStep))
    /\ UNCHANGED <<typed, cmd_mode, flags>>

KeyUp ==
    /\ Received
    /\ cursor' = Sub(cursor, Hours(1))
    /\ UNCHANGED <<typed, cmd_mode, flags>>

KeyDown ==
    /\ Received
    /\ cursor' = Add(cursor, Hours(1))
    /\ UNCHANGED <<typed, cmd_mode, flags>>

KeyBackspace ==
    /\ Received
    /\ backspace' = TRUE
    /\ UNCHANGED <<cursor, typed, cmd_mode, quit, save, scale_up, scale_down, delete>>

KeyEsc ==
    /\ Received
    /\ cmd_mode' = FALSE
    /\ UNCHANGED <<cursor, typed, flags>>

\* Event::Key(Key::Char(c)) if cmd_mode
KeyCommand(c) ==
    /\ Received
    /\ cmd_mode
    /\ cmd_mode' = FALSE
    /\ save' = IF c \in {"q", "s"} THEN TRUE ELSE save
    /\ quit' = IF c \in {"q", "x"} THEN TRUE ELSE quit
    /\ delete' = IF c = "d" THEN TRUE ELSE delete
    /\ UNCHANGED <<cursor, typed, scale_up, scale_down, backspace>>

\* '[' outside command mode
KeyShrink ==
    /\ Received
    /\ ~cmd_mode
    /\ scale_down' = TRUE
    /\ UNCHANGED <<cursor, typed, cmd_mode, quit, save, scale_up, delete, backspace>>

\* ']' outside command mode
KeyGrow ==
    /\ Received
    /\ ~cmd_mode
    /\ scale_up' = TRUE
    /\ UNCHANGED <<cursor, typed, cmd_mode, quit, save, scale_down, delete, backspace>>

\* ':' outside command mode
KeyColon ==
    /\ Received
    /\ ~cmd_mode
    /\ cmd_mode' = ~cmd_mode
    /\ UNCHANGED <<cursor, typed, flags>>

\* ' ' or another character of VALID_CHARS outside command mode
KeyText(ch) ==
    /\ Received
    /\ ~cmd_mode
    /\ ch \in ValidChars
    /\ typed' = Append(typed, ch)
    /\ UNCHANGED <<cursor, cmd_mode, flags>>

\* any other character outside command mode
KeyIgnored(ch) ==
    /\ Received
    /\ ~cmd_mode
    /\ ch \notin ValidChars \cup {"[", "]", ":"}
    /\ UNCHANGED <<cursor, typed, cmd_mode, flags>>

\* the rest of the loop body: clamp, save, quit, delete, create, edit, draw
Commit ==
    /\ pc = "events"
    /\ LET c == ClampCursor(cursor)
           created == AfterCreate(AfterDelete(tasks, c, delete), c, typed)
           i == FindContaining(created, c)
           edited == EditTask(created[i], typed, backspace, scale_up, scale_down)
       IN  /\ before' = Some([tasks |-> tasks, typed |-> typed, cursor |-> c,
                              schedule |-> schedule])
           /\ schedule' = IF save
                          THEN Saved(schedule, today, target,
                                     [date |-> day_date, tasks |-> tasks])
                          ELSE schedule
           /\ IF quit
              THEN /\ pc' = "done"
                   /\ cursor' = c
                   /\ UNCHANGED <<tasks, typed>>
              ELSE /\ pc' = "frame"
                   /\ IF i = 0
                      THEN /\ tasks' = created
                           /\ typed' = typed
                           /\ cursor' = c
                      ELSE /\ tasks' = [created EXCEPT ![i] = edited]
                           /\ typed' = << >>
                           /\ cursor' = IF scale_up \/ scale_down
                                        THEN ResizedCursor(edited)
                                        ELSE c
    /\ UNCHANGED <<cmd_mode, session, flags, selected_slot, nkeys, pending, probe>>

----------------------------------------------------------------------------
(* The editing session *)

NoProbe == [fn |-> "none"]

\* edit() up to the loop, for the schedule file `dates`, clock `now` and flag `tomorrow`
Opened(dates, now, tomorrow, events) ==
    /\ pc = "frame"
    /\ today = now.date
    /\ target = TargetDate(now, tomorrow)
    /\ schedule = dates
    /\ tasks = Loaded(dates, TargetDate(now, tomorrow)).tasks
    /\ day_date = Loaded(dates, TargetDate(now, tomorrow)).date
    /\ cursor = TimeNew(7, 0)
    /\ typed = << >>
    /\ cmd_mode = FALSE
    /\ quit = FALSE /\ save = FALSE /\ scale_up = FALSE
    /\ scale_down = FALSE /\ delete = FALSE /\ backspace = FALSE
    /\ selected_slot = None
    /\ nkeys = 0
    /\ pending = events
    /\ before = None

NoDates == [d \in {} |-> d]

Noon == [date |-> 0, hour |-> 12, minute |-> 0]

\* a session on an empty schedule file
Init == Opened(NoDates, Noon, FALSE, MaxEvents) /\ probe = NoProbe

Next ==
    \/ BeginIteration
    \/ KeyLeft
    \/ KeyRight
    \/ KeyUp
    \/ KeyDown
    \/ KeyBackspace
    \/ KeyEsc
    \/ \E c \in CommandKeys : KeyCommand(c)
    \/ KeyShrink
    \/ KeyGrow
    \/ KeyColon
    \/ \E ch \in TextKeys : KeyText(ch)
    \/ \E ch \in IgnoredKeys : KeyIgnored(ch)
    \/ Commit

Spec == Init /\ [][Next]_vars

\* a longer session in which the user only moves down, types the first
\* character of one task and grows it
InitLate == Opened(NoDates, Noon, FALSE, LateEvents) /\ probe = NoProbe

NextLate ==
    \/ BeginIteration
    \/ KeyDown
    \/ KeyGrow
    \/ (tasks = << >> /\ typed = << >> /\ KeyText("a"))
    \/ Commit

SpecLate == InitLate /\ [][NextLate]_vars

----------------------------------------------------------------------------
(* Clock arithmetic on its own: every pair of normalized times *)

Times == [hour : 0..(HoursPerDay - 1), min : 0..(MinsPerHour - 1)]

InitClock ==
    /\ Opened(NoDates, Noon, FALSE, 0)
    /\ \E a \in Times, b \in Times : probe = [fn |-> "times", a |-> a, b |-> b]

ApplyAddSub ==
    /\ probe.fn = "times"
    /\ probe' = [fn |-> "add_sub", a |-> probe.a, b |-> probe.b,
                 sum |-> Add(probe.a, probe.b),
                 diff |-> Sub(probe.a, probe.b),
                 back |-> Sub(Add(probe.a, probe.b), probe.b),
                 underflow |-> \/ SubUnderflows(probe.a, probe.b)
                               \/ SubUnderflows(Add(probe.a, probe.b), probe.b)]
    /\ UNCHANGED editor_vars

NextClock == ApplyAddSub

SpecClock == InitClock /\ [][NextClock]_vars

----------------------------------------------------------------------------
(* TimeSlot::contains on its own *)

SlotStarts == [hour : 0..(HoursPerDay - 1), min : {0, 30, 55}]

SlotDurations == {1, 5, 15, 30, 60, 120, 1439}

InitSlot ==
    /\ Opened(NoDates, Noon, FALSE, 0)
    /\ \E st \in SlotStarts, d \in SlotDurations, t \in Times :
           probe = [fn |-> "slot", slot |-> [start |-> st, duration |-> d], time |-> t]

ApplyContains ==
    /\ probe.fn = "slot"
    /\ probe' = [fn |-> "contains", slot |-> probe.slot, time |-> probe.time,
                 out |-> Contains(probe.slot, probe.time)]
    /\ UNCHANGED editor_vars

NextSlot == ApplyContains

SpecSlot == InitSlot /\ [][NextSlot]_vars

----------------------------------------------------------------------------
(* target_date on its own: every local time of day, with and without --tomorrow *)

InitTarget ==
    /\ Opened(NoDates, Noon, FALSE, 0)
    /\ \E t \in Times, tm \in BOOLEAN :
           probe = [fn |-> "now", now |-> [date |-> 0, hour |-> t.hour, minute |-> t.min],
                    tomorrow |-> tm]

ApplyTargetDate ==
    /\ probe.fn = "now"
    /\ probe' = [fn |-> "target_date", now |-> probe.now, tomorrow |-> probe.tomorrow,
                 out |-> TargetDate(probe.now, probe.tomorrow)]
    /\ UNCHANGED editor_vars

NextTarget == ApplyTargetDate

SpecTarget == InitTarget /\ [][NextTarget]_vars

----------------------------------------------------------------------------
(* Sessions opened on a stored schedule file *)

StoredDates == (0 - DaysBack)..DaysAhead

\* a day as an earlier session saved it: one task at the top of the window
StoredDay(d) ==
    [date |-> d,
     tasks |-> <<[slot |-> [start |-> TimeNew(7, 0), duration |-> NewTaskDuration],
                  label |-> <<"q">>]>>]

StoredSchedules == {[d \in S |-> StoredDay(d)] : S \in SUBSET StoredDates}

Evenings == {[date |-> 0, hour |-> h, minute |-> 30] : h \in {RolloverHour, RolloverHour + 1}}

InitSave ==
    /\ \E dates \in StoredSchedules, now \in Evenings, tm \in BOOLEAN :
           Opened(dates, now, tm, SaveEvents)
    /\ probe = NoProbe

SpecSave == InitSave /\ [][Next]_vars

\* a long session in which the user moves down to the last row, types the
\* first character of a task there and then grows it over and over
InitGrow == Opened(NoDates, Noon, FALSE, GrowEvents) /\ probe = NoProbe

NextGrow ==
    \/ BeginIteration
    \/ (tasks = << >> /\ typed = << >> /\ KeyDown)
    \/ (tasks = << >> /\ typed = << >> /\ cursor = WindowEnd /\ KeyText("a"))
    \/ (tasks # << >> /\ ~scale_up /\ KeyGrow)
    \/ Commit

SpecGrow == InitGrow /\ [][NextGrow]_vars

\* a session that never resizes
NextNoResize ==
    \/ BeginIteration
    \/ KeyLeft
    \/ KeyRight
    \/ KeyUp
    \/ KeyDown
    \/ KeyBackspace
    \/ KeyEsc
    \/ \E c \in CommandKeys : KeyCommand(c)
    \/ KeyColon
    \/ \E ch \in TextKeys : KeyText(ch)
    \/ \E ch \in IgnoredKeys : KeyIgnored(ch)
    \/ Commit

SpecNoResize == Init /\ [][NextNoResize]_vars

----------------------------------------------------------------------------
(* Claims *)

\* C1: for all normalized t1, t2, (t1 + t2) - t2 = t1, with and without a
\* minute carry and an hour wrap.
AddThenSubIsIdentity == probe.fn = "add_sub" => probe.back = probe.a

\* a pair whose sum carries minutes into the hour and wraps past 24
AddThenSubWrapsAndCarries ==
    /\ probe.fn = "add_sub"
    /\ probe.a.min + probe.b.min >= MinsPerHour
    /\ probe.a.hour + probe.b.hour + 1 >= HoursPerDay
    /\ probe.back = probe.a

Normalized(t) == t.hour \in 0..(HoursPerDay - 1) /\ t.min \in 0..(MinsPerHour - 1)

\* C2: for all normalized a, b, a + b and a - b are normalized and no usize
\* subtraction goes below zero; 00:00 - 00:05 = 23:55.
AddSubNormalizedNoUnderflow ==
    probe.fn = "add_sub" =>
        /\ Normalized(probe.sum)
        /\ Normalized(probe.diff)
        /\ ~probe.underflow
        /\ (probe.a = TimeNew(0, 0) /\ probe.b = TimeNew(0, 5)
                => probe.diff = TimeNew(23, 55))

\* 00:00 - 00:05 has been computed, borrowing across midnight
MidnightMinusFive ==
    /\ probe.fn = "add_sub"
    /\ probe.a = TimeNew(0, 0)
    /\ probe.b = TimeNew(0, 5)
    /\ probe.diff = TimeNew(23, 55)

MinsPerDay == HoursPerDay * MinsPerHour

\* C3: for every slot with normalized start and 1 <= d < 1440 and every
\* normalized t, contains(t) iff (minutes(t) - minutes(start)) mod 1440 < d,
\* also when the slot's end wraps past midnight.
ContainsIsWrappingInterval ==
    probe.fn = "contains" =>
        (probe.out <=>
            (InMins(probe.time) - InMins(probe.slot.start)) % MinsPerDay
                < probe.slot.duration)

\* the iteration that has just committed (or returned): its starting point
Committed == pc \in {"frame", "done"} /\ before # None

\* C4: after every save, whatever the target date, the schedule holds no entry
\* before today, holds the target date's entry equal to the working day state
\* the save ran on, and every other entry dated today or later is unchanged.
SavePrunesAndUpserts ==
    (Committed /\ save) =>
        LET old == before[1].schedule
        IN  /\ \A d \in DOMAIN schedule : d >= today
            /\ target \in DOMAIN schedule
            /\ schedule[target] = [date |-> day_date, tasks |-> before[1].tasks]
            /\ \A d \in DOMAIN old :
                   (d >= today /\ d # target) =>
                       d \in DOMAIN schedule /\ schedule[d] = old[d]
            /\ \A d \in DOMAIN schedule : d # target => d \in DOMAIN old

\* a save for tomorrow that pruned yesterday, kept today and wrote an edited day
SavedForTomorrow ==
    /\ Committed /\ save
    /\ target = today + 1
    /\ (today - 1) \in DOMAIN before[1].schedule
    /\ today \in DOMAIN schedule
    /\ (today - 1) \notin DOMAIN schedule
    /\ target \in DOMAIN before[1].schedule
    /\ schedule[target] # before[1].schedule[target]

\* ts with its j-th element removed
Without(ts, j) == SubSeq(ts, 1, j - 1) \o SubSeq(ts, j + 1, Len(ts))

\* what the claim says a step with typed text does to the day state
TypedTextOutcome(old, text, time, new) ==
    IF FindContaining(old, time) = 0
    THEN /\ Len(new) = Len(old) + 1
         /\ \E j \in 1..Len(new) :
                /\ new[j] = [slot |-> [start |-> time, duration |-> 15], label |-> text]
                /\ Without(new, j) = old
    ELSE /\ Len(new) = Len(old)
         /\ \E j \in 1..Len(old) :
                /\ Contains(old[j].slot, time)
                /\ new[j].label = old[j].label \o text
                /\ \A k \in 1..Len(old) : k # j => new[k] = old[k]

\* C5 as stated: in every step where typed text is non-empty, one 15-minute
\* task labelled with the text is added at an unoccupied cursor, and at an
\* occupied cursor no task is added and the text is appended to a task
\* containing the cursor; all other tasks are unchanged.
TypedTextCreatesOrAppends ==
    (pc = "frame" /\ before # None /\ before[1].typed # << >>) =>
        TypedTextOutcome(before[1].tasks, before[1].typed, before[1].cursor, tasks)

\* C5 amended: the same, in steps in which no backspace, delete, grow, shrink
\* or quit fires.
TypedTextAloneCreatesOrAppends ==
    (/\ pc = "frame" /\ before # None /\ before[1].typed # << >>
     /\ ~backspace /\ ~delete /\ ~scale_up /\ ~scale_down) =>
        TypedTextOutcome(before[1].tasks, before[1].typed, before[1].cursor, tasks)

\* text typed at an unoccupied cursor next to an existing task created a second task
TypedCreatedSecondTask ==
    /\ pc = "frame" /\ before # None /\ before[1].typed # << >>
    /\ ~backspace /\ ~delete /\ ~scale_up /\ ~scale_down
    /\ Len(before[1].tasks) = 1
    /\ Len(tasks) = 2

\* text typed at an occupied cursor went to the existing task
TypedAppendedToTask ==
    /\ pc = "frame" /\ before # None /\ before[1].typed # << >>
    /\ ~backspace /\ ~delete /\ ~scale_up /\ ~scale_down
    /\ FindContaining(before[1].tasks, before[1].cursor) # 0
    /\ Len(tasks) = Len(before[1].tasks)

\* what the claim says a grow does to the first task containing the cursor
GrowOutcome(old, time, new, cur) ==
    LET i == FindContaining(old, time)
    IN  /\ i <= Len(new)
        /\ new[i].slot.start = old[i].slot.start
        /\ new[i].slot.duration = old[i].slot.duration + 5
        /\ End(new[i].slot) = Add(End(old[i].slot), Mins(5))
        /\ cur = Sub(End(new[i].slot), Mins(5))

\* C6 as stated: whenever grow fires in a step in which a task contains the
\* cursor, that task's duration grows by exactly 5, its end moves forward by 5
\* with the start unchanged, and the cursor ends at the new end - 5 minutes.
GrowAddsFive ==
    (/\ pc = "frame" /\ before # None /\ scale_up
     /\ FindContaining(before[1].tasks, before[1].cursor) # 0) =>
        GrowOutcome(before[1].tasks, before[1].cursor, tasks, cursor)

\* C6 amended: the same for the first task containing the cursor, in steps in
\* which no shrink, delete or quit fires.
GrowAloneAddsFive ==
    (/\ pc = "frame" /\ before # None /\ scale_up /\ ~scale_down /\ ~delete
     /\ FindContaining(before[1].tasks, before[1].cursor) # 0) =>
        GrowOutcome(before[1].tasks, before[1].cursor, tasks, cursor)

\* a task under the cursor has been grown
GrewSelectedTask ==
    /\ pc = "frame" /\ before # None /\ scale_up /\ ~scale_down /\ ~delete
    /\ FindContaining(before[1].tasks, before[1].cursor) # 0
    /\ cursor # before[1].cursor

\* C7: from an empty day, every task's duration is at least 5 after any key
\* sequence, and a shrink on a task of duration 5 leaves it at 5.
DurationAtLeastFive ==
    /\ \A i \in 1..Len(tasks) : tasks[i].slot.duration >= 5
    /\ (Committed /\ scale_down /\ ~delete) =>
           LET i == FindContaining(before[1].tasks, before[1].cursor)
           IN  (i # 0 /\ before[1].tasks[i].slot.duration = 5) =>
                   tasks[i].slot.duration = 5

\* a shrink has fired on a task whose duration was already 5
ShrankAtFloor ==
    /\ pc = "frame" /\ before # None /\ scale_down /\ ~scale_up /\ ~delete
    /\ LET i == FindContaining(before[1].tasks, before[1].cursor)
       IN  i # 0 /\ before[1].tasks[i].slot.duration = 5 /\ tasks[i].slot.duration = 5

\* C8: at the end of every editor step, 07:00 <= cursor <= 18:55.
CursorInWindow ==
    pc = "frame" => TimeLe(WindowStart, cursor) /\ TimeLe(cursor, WindowEnd)

\* C9: without grow or shrink, at most one task's slot contains the cursor at
\* the end of a step, and no two tasks' slots contain the same instant.
AtMostOneTaskPerInstant ==
    pc = "frame" =>
        /\ Cardinality({i \in 1..Len(tasks) : Contains(tasks[i].slot, cursor)}) <= 1
        /\ \A i, j \in 1..Len(tasks) :
               i # j => ~Contains(tasks[i].slot, tasks[j].slot.start)

\* C10 as stated: the target date is tomorrow for every local time later than
\* 18:00 and whenever the tomorrow override is set, and today otherwise.
TomorrowPastSixPm ==
    probe.fn = "target_date" =>
        probe.out = IF probe.tomorrow
                       \/ InMins(TimeNew(probe.now.hour, probe.now.minute)) > 18 * MinsPerHour
                    THEN probe.now.date + 1
                    ELSE probe.now.date

\* C10 amended: the target date is the date one day after now from 19:00 local
\* time on and whenever the tomorrow override is set; it is today otherwise,
\* in particular from 18:01 to 18:59.
TomorrowFromSevenPm ==
    probe.fn = "target_date" =>
        probe.out = IF probe.tomorrow
                       \/ InMins(TimeNew(probe.now.hour, probe.now.minute)) >= 19 * MinsPerHour
                    THEN probe.now.date + 1
                    ELSE probe.now.date

\* 18:30 without the override has been resolved, to today
HalfPastSixIsToday ==
    /\ probe.fn = "target_date"
    /\ probe.now.hour = 18 /\ probe.now.minute = 30 /\ ~probe.tomorrow
    /\ probe.out = probe.now.date

----------------------------------------------------------------------------
(* main.rs: tmux(), the status strip *)

\* COLORS
Palette ==
    << <<190, 0, 0>>, <<0, 190, 0>>, <<15, 52, 215>>, <<227, 159, 0>>, <<0, 190, 190>>,
       <<156, 0, 190>>, <<0, 176, 123>>, <<104, 0, 176>>, <<255, 0, 172>>, <<0, 122, 198>> >>

RECURSIVE LabelDigest(_)
\* get_color_index's md5 digest of the label is not computed here: this is a
\* stand-in digest, like md5 a function of the label's bytes alone
LabelDigest(label) ==
    IF label = << >> THEN 7
    ELSE (31 * LabelDigest(SubSeq(label, 1, Len(label) - 1)) + Code(label[Len(label)])) % 1009

\* get_color_index
ColorIndex(label) == LabelDigest(label) % Len(Palette)

HexDigits == <<"0","1","2","3","4","5","6","7","8","9","a","b","c","d","e","f">>

\* {:02x} of one colour channel
Hex2(n) == <<HexDigits[(n \div 16) + 1], HexDigits[(n % 16) + 1]>>

\* get_tmux_color
TmuxColor(index) ==
    LET rgb == Palette[(index % Len(Palette)) + 1]
    IN  <<"#">> \o Hex2(rgb[1]) \o Hex2(rgb[2]) \o Hex2(rgb[3])

DefaultColor == <<"d","e","f","a","u","l","t">>

RedColor == <<"r","e","d">>

NoTaskSet == <<"N","o"," ","t","a","s","k"," ","s","e","t">>

\* a background-colour directive `#[bg=..]`, and one visible character
Directive(color) == [kind |-> "bg", text |-> color]

Visible(ch) == [kind |-> "ch", text |-> <<ch>>]

RECURSIVE Spaces(_)
Spaces(n) == IF n <= 0 THEN << >> ELSE <<" ">> \o Spaces(n - 1)

\* format!("{: <width$}", text): left-aligned, padded with spaces up to width
PadLeftAligned(text, width) == text \o Spaces(width - Len(text))

RECURSIVE VisibleAll(_)
VisibleAll(text) ==
    IF text = << >> THEN << >> ELSE <<Visible(Head(text))>> \o VisibleAll(Tail(text))

\* task.and_then(|task| task.label.chars().nth(run)).unwrap_or(' ')
StripChar(task, run) ==
    IF task # None /\ run + 1 <= Len(task[1].label) THEN task[1].label[run + 1] ELSE " "

\* Option<&Task> found at `time`
CurrentTask(ts, time) ==
    LET i == FindContaining(ts, time) IN IF i = 0 THEN None ELSE Some(ts[i])

\* the comparison by label alone
SameLabel(current_task, task) ==
    \/ (current_task = None /\ task = None)
    \/ (current_task # None /\ task # None /\ current_task[1].label = task[1].label)

\* `current_task == task` on Option<&Task>: equal tasks, or both None
SameTask(current_task, task) == current_task = task

RECURSIVE StripLoop(_, _, _, _, _, _)
\* `for _ in 0..width { .. }` with its locals time, task, run and to_display
StripLoop(ts, time, left, task, run, to_display) ==
    IF left = 0 THEN to_display
    ELSE LET current_task == CurrentTask(ts, time)
             same == SameTask(current_task, task)
             task2 == IF same THEN task ELSE current_task
             run2 == IF same THEN run + 1 ELSE 0
             color == IF task2 # None THEN TmuxColor(ColorIndex(task2[1].label))
                      ELSE DefaultColor
             shown == IF same THEN to_display ELSE Append(to_display, Directive(color))
         IN  StripLoop(ts, Add(time, Mins(1)), left - 1, task2, run2,
                       Append(shown, Visible(StripChar(task2, run2))))

\* tmux(): what is printed for the schedule `dates` at `now`
Tmux(dates, now, tomorrow, width) ==
    LET key == TargetDate(now, tomorrow)
    IN  IF key \notin DOMAIN dates
        THEN <<Directive(RedColor)>> \o VisibleAll(PadLeftAligned(NoTaskSet, width))
                 \o <<Directive(DefaultColor)>>
        ELSE StripLoop(dates[key].tasks, TimeNew(now.hour, now.minute), width,
                       None, 0, << >>) \o <<Directive(DefaultColor)>>

----------------------------------------------------------------------------
(* The status strip on its own *)

\* widest strip rendered
MaxWidth == 12

StripTask(h, m, d, label) ==
    [slot |-> [start |-> TimeNew(h, m), duration |-> d], label |-> label]

\* days an editing session can have saved: empty, two tasks with one label
\* around a gap, two adjacent tasks with one label, two with different labels
StripDays ==
    { << >>,
      <<StripTask(9, 0, 5, <<"a", "q">>), StripTask(9, 10, 5, <<"a", "q">>)>>,
      <<StripTask(9, 0, 5, <<"a", "q">>), StripTask(9, 5, 5, <<"a", "q">>)>>,
      <<StripTask(9, 0, 5, <<"a">>), StripTask(9, 5, 10, <<"q">>)>> }

StripSchedules == {NoDates} \cup {[d \in {0} |-> [date |-> 0, tasks |-> ts]] : ts \in StripDays}

InitStrip ==
    /\ Opened(NoDates, Noon, FALSE, 0)
    /\ \E dates \in StripSchedules, t \in Times, tm \in BOOLEAN, w \in 0..MaxWidth :
           probe = [fn |-> "show", dates |-> dates,
                    now |-> [date |-> 0, hour |-> t.hour, minute |-> t.min],
                    tomorrow |-> tm, width |-> w]

ApplyTmux ==
    /\ probe.fn = "show"
    /\ probe' = [fn |-> "tmux", dates |-> probe.dates, now |-> probe.now,
                 tomorrow |-> probe.tomorrow, width |-> probe.width,
                 out |-> Tmux(probe.dates, probe.now, probe.tomorrow, probe.width)]
    /\ UNCHANGED editor_vars

NextStrip == ApplyTmux

SpecStrip == InitStrip /\ [][NextStrip]_vars

\* number of visible characters of a printed strip
VisibleCount(out) == Cardinality({i \in 1..Len(out) : out[i].kind = "ch"})

\* C11: for every width w >= 0 the strip's visible text has length exactly w,
\* with a day state for the target date and with none.
StripHasRequestedWidth ==
    probe.fn = "tmux" => VisibleCount(probe.out) = probe.width

\* the task containing tick k of the strip under test
TickTask(k) ==
    CurrentTask(probe.dates[TargetDate(probe.now, probe.tomorrow)].tasks,
                Add(TimeNew(probe.now.hour, probe.now.minute), Mins(k)))

\* a directive stands right before the k-th visible character (k from 0)
StartsSegment(out, k) ==
    \E i \in 1..(Len(out) - 1) :
        /\ out[i].kind = "bg"
        /\ out[i + 1].kind = "ch"
        /\ Cardinality({j \in 1..i : out[j].kind = "ch"}) = k

\* the directives of a strip, in order, without the closing reset
RECURSIVE Directives(_)
Directives(out) ==
    IF Len(out) <= 1 THEN << >>
    ELSE IF Head(out).kind = "bg" THEN <<Head(out)>> \o Directives(Tail(out))
    ELSE Directives(Tail(out))

\* the window starts inside task a, crosses a gap at tick g and enters task b,
\* another task with the same label, at tick e
TaskGapTask(g, e) ==
    /\ 0 < g /\ g < e /\ e < probe.width
    /\ TickTask(0) # None /\ TickTask(e) # None
    /\ TickTask(0) # TickTask(e)
    /\ TickTask(0)[1].label = TickTask(e)[1].label
    /\ \A k \in 0..(probe.width - 1) :
           TickTask(k) = IF k < g THEN TickTask(0) ELSE IF k < e THEN None ELSE TickTask(e)

\* C12: a new colour segment starts at a tick after the first iff the task
\* containing it differs from the task containing the previous tick, and a
\* window over task, gap, task with the same label has exactly three segments:
\* task colour, default colour, task colour.
SegmentStartsWhereTaskChanges ==
    (probe.fn = "tmux" /\ TargetDate(probe.now, probe.tomorrow) \in DOMAIN probe.dates) =>
        /\ VisibleCount(probe.out) = probe.width
        /\ \A k \in 1..(probe.width - 1) :
               StartsSegment(probe.out, k) <=> (TickTask(k) # TickTask(k - 1))
        /\ \A g, e \in 1..(probe.width - 1) :
               TaskGapTask(g, e) =>
                   Directives(probe.out) =
                       << Directive(TmuxColor(ColorIndex(TickTask(0)[1].label))),
                          Directive(DefaultColor),
                          Directive(TmuxColor(ColorIndex(TickTask(0)[1].label))) >>

\* a strip over task, gap and a second task with the same label was rendered
ThreeSegmentStrip ==
    /\ probe.fn = "tmux"
    /\ TargetDate(probe.now, probe.tomorrow) \in DOMAIN probe.dates
    /\ \E g, e \in 1..(probe.width - 1) : TaskGapTask(g, e)
    /\ Len(Directives(probe.out)) = 3


----------------------------------------------------------------------------
(* The commit phase of the editor *)

\* C13: when a save fires in the same iteration as a delete, typed text, a
\* backspace or a resize, the day state it writes is the one after those
\* mutations (the phase runs delete, create, edit, save, quit).
SaveWritesEditedDay ==
    (pc = "frame" /\ before # None /\ save) =>
        /\ target \in DOMAIN schedule
        /\ schedule[target].tasks = tasks


----------------------------------------------------------------------------
(* Key events *)

\* a key event that is none of the command characters s, q, d, x
OtherKey ==
    \/ KeyLeft \/ KeyRight \/ KeyUp \/ KeyDown
    \/ KeyBackspace
    \/ KeyEsc
    \/ \E c \in CommandKeys \ {"s", "q", "d", "x"} : KeyCommand(c)

\* C14: in command mode every key event other than s, q, d, x (Left, Right,
\* Up, Down, Backspace, Escape, any other character) leaves command mode and
\* changes neither the cursor, the typed buffer, the task list nor the
\* persisted schedule.
CommandModeOtherKeyOnlyLeaves ==
    [][(cmd_mode /\ OtherKey) =>
           /\ ~cmd_mode'
           /\ UNCHANGED <<cursor, typed, tasks, schedule>>]_vars

\* where the claim puts the cursor after Left / Right, with the selection
\* looked up at the time of the event
LeftTarget ==
    LET i == FindContaining(tasks, cursor)
    IN  IF i # 0 THEN Sub(tasks[i].slot.start, Mins(5)) ELSE Sub(cursor, Mins(5))

RightTarget ==
    LET i == FindContaining(tasks, cursor)
    IN  IF i # 0 THEN End(tasks[i].slot) ELSE Add(cursor, Mins(5))

\* C15: for each key event, also when several are drained in one iteration,
\* with selected = the task containing the cursor at the time of the event:
\* Left puts the cursor at selected.start - 5 min and Right at selected.end,
\* or 5 minutes back / forward when nothing is selected; Up and Down move it
\* one hour back / forward.
NavigationFollowsCurrentSelection ==
    [][/\ KeyLeft => cursor' = LeftTarget
       /\ KeyRight => cursor' = RightTarget
       /\ KeyUp => cursor' = Sub(cursor, Hours(1))
       /\ KeyDown => cursor' = Add(cursor, Hours(1))]_vars


----------------------------------------------------------------------------
(* Delete *)

\* the tasks of old whose slot does not contain time, in their order
Outside(old, time) ==
    LET Keep(t) == ~Contains(t.slot, time)
    IN  SelectSeq(old, Keep)

\* what the claim says a delete leaves of the day state: the tasks that did
\* not contain the cursor, unchanged and in order, and beside them at most
\* the task that typed text creates at the cursor in the same step
DeleteOutcome(old, text, time, new) ==
    \/ new = Outside(old, time)
    \/ /\ text # << >>
       /\ \E j \in 1..Len(new) :
              /\ new[j].slot.start = time
              /\ Without(new, j) = Outside(old, time)

\* C16: when the delete command fires, after the step no task that was there
\* before contains the clamped cursor, the tasks that do not contain it are
\* unchanged and in the same relative order, and nothing is deleted when no
\* task contains it.
DeleteRemovesTasksAtCursor ==
    (Committed /\ delete) =>
        DeleteOutcome(before[1].tasks, before[1].typed, before[1].cursor, tasks)


----------------------------------------------------------------------------
(* Quit *)

\* the schedule file after a save: the entries dated today or later, with
\* the target date's entry replaced by the working day
Written ==
    [d \in {k \in DOMAIN schedule : k >= today} \cup {target} |->
        IF d = target THEN [date |-> day_date, tasks |-> tasks] ELSE schedule[d]]

\* C17: a quit ends the session in the iteration it fires in: with 'x' alone
\* the persisted schedule is unchanged, with 'q' the pruned schedule holding
\* the working day is written, the day state is not edited any more, and no
\* step follows a quit.
QuitEndsSession ==
    [][/\ pc # "done"
       /\ (quit /\ pc = "events" /\ pc' # "events") =>
              /\ pc' = "done"
              /\ tasks' = tasks
              /\ schedule' = IF save THEN Written ELSE schedule]_vars

\* a session has ended on save-and-quit, with a past day pruned from the file
QuitAfterSave ==
    /\ pc = "done" /\ quit /\ save
    /\ (today - 1) \in DOMAIN before[1].schedule
    /\ (today - 1) \notin DOMAIN schedule
    /\ target \in DOMAIN schedule


----------------------------------------------------------------------------
(* Selectability *)

\* C18: in every reachable state, also after repeated grows, each task's slot
\* contains its own start time, so that the cursor placed on the start
\* selects the task and a delete there removes it.
EveryTaskContainsItsStart ==
    \A i \in 1..Len(tasks) : Contains(tasks[i].slot, tasks[i].slot.start)


----------------------------------------------------------------------------
(* The typed buffer *)

\* C19: at the end of every editor step the typed buffer is empty: the text
\* typed in the step went into a newly created task or onto the label of the
\* selected task.
TypedConsumedByStep ==
    Committed => typed = << >>


----------------------------------------------------------------------------
(* Order of the task list *)

\* C20: from an empty day, after every step of any sequence of creates, label
\* edits, backspaces, grows, shrinks and deletes, the task list is ordered by
\* non-decreasing start time.
TasksOrderedByStart ==
    \A i \in 1..(Len(tasks) - 1) :
        TimeLe(tasks[i].slot.start, tasks[i + 1].slot.start)

\* a task has been created above an existing one and sorted in front of it
CreatedBeforeExistingTask ==
    /\ pc = "frame" /\ before # None
    /\ Len(before[1].tasks) = 1
    /\ Len(tasks) = 2
    /\ tasks[2] = before[1].tasks[1]
    /\ TimeLt(tasks[1].slot.start, tasks[2].slot.start)

====
